---- MODULE Spec2Model ----
(***************************************************************************)
(* Model of the top-level application controller of destiny-power-bars     *)
(* (App.tsx): the throttled refresh of auth / manifest / character data    *)
(* and the drag-and-drop display order of the character cards.             *)
(*                                                                         *)
(* Granularity.  Every handler (an event callback, a timer callback, the   *)
(* continuation of a settled promise) is one action.  The state updates it *)
(* makes are followed, inside the same action, by the re-render they cause *)
(* and by the effects (useEffect) whose dependencies changed, as React     *)
(* runs them before the next handler.                                      *)
(***************************************************************************)
EXTENDS Integers, Sequences, FiniteSets, TLC

(***************************************************************************)
(* Bounds of the model.                                                    *)
(***************************************************************************)
MaxChars == 3
MaxInFlight == 2
MaxManifestCalls == 3

\* Character ids the services may deliver, and the ids a persisted order may hold.
Ids == {"A", "B", "C"}

\* An optional value (T | undefined of the source): None is undefined, Some(x)
\* a defined value x.
None == <<>>
Some(x) == <<x>>
IsSome(o) == o # <<>>
Val(o) == o[1]

\* "undefined" where the defined values are strings (draggingCharacterId).
Undefined == "undefined"

(***************************************************************************)
(* Sequences (JavaScript arrays are 0-based, TLA+ sequences 1-based).      *)
(***************************************************************************)
Range(s) == {s[i] : i \in DOMAIN s}

SeqsUpTo(S, n) == UNION {[1..k -> S] : k \in 0..n}

NoDuplicates(s) == \A i, j \in DOMAIN s : i # j => s[i] # s[j]

\* Array.prototype.indexOf: the 0-based index of the first occurrence, or -1.
IndexOf(s, x) ==
  IF \E i \in DOMAIN s : s[i] = x
    THEN (CHOOSE i \in DOMAIN s : s[i] = x /\ \A j \in 1..(i - 1) : s[j] # x) - 1
    ELSE -1

\* Array.prototype.splice(start, 1, item) on a copy: a negative start counts
\* from the end, a start past the end appends, and at most one element is
\* removed from that position before item is inserted there.
Splice(s, start, item) ==
  LET len == Len(s)
      rel == IF start < 0
               THEN (IF len + start < 0 THEN 0 ELSE len + start)
               ELSE (IF start > len THEN len ELSE start)
      del == IF len - rel < 1 THEN len - rel ELSE 1
  IN  SubSeq(s, 1, rel) \o <<item>> \o SubSeq(s, rel + del + 1, len)

(***************************************************************************)
(* Character snapshots (PowerBarsCharacterData).                           *)
(***************************************************************************)
\* artifactData is optional: None, or Some(bonusPower).
Snapshot(id) == [characterId |-> id, overallPower |-> 700, artifactData |-> None]

\* A snapshot with the given overall power and artifact data.
PowerSnapshot(id, power, artifact) ==
  [characterId |-> id, overallPower |-> power, artifactData |-> artifact]

\* The snapshot sets getCharacterData may deliver: character ids are unique
\* within a snapshot set.
Rosters == {s \in SeqsUpTo(Ids, MaxChars) : NoDuplicates(s)}

SnapshotSet(ids) == [i \in DOMAIN ids |-> Snapshot(ids[i])]

Deliveries == {SnapshotSet(ids) : ids \in Rosters}

\* What loadCharacterDisplayOrder() may return when the controller starts.
InitialStoredOrders ==
  {None, Some(<<>>), Some(<<"A", "B">>), Some(<<"B", "A", "C">>),
   Some(<<"B", "B">>), Some(<<"C", "A">>)}

VARIABLES
  mounted,                    \* "init", "mounted" or "unmounted"
  isAuthed,
  hasAuthError,
  hasSelectedMembership,
  manifestData,
  hasManifestError,
  isBungieSystemDisabled,
  isBungieServiceUnavailable,
  isFetchingCharacterData,
  characterData,
  manifestState,
  draggingCharacterId,
  characterDisplayOrder,
  storedOrder,                \* what saveCharacterDisplayOrder last persisted
  authThrottle,               \* the throttle around doAuth
  authInFlight,               \* auth() calls not yet settled
  charThrottle,               \* the throttle around doGetCharacterData
  charInFlight,               \* getCharacterData() calls not yet settled
  manifestCalls,              \* calls of doGetManifest.current(...)
  manifestCleanup,            \* the effect holds a throttled function to run at teardown
  manifestInvocations,        \* calls of getManifest()
  manifestInFlight,           \* getManifest() calls not yet settled
  ga,                         \* the dimensions last given to ga.set
  status,                     \* the status the last render displayed
  useCharacterOrder,          \* the order the last render displayed
  validated,                  \* the last isValidCharacterDisplayOrder call of a render
  lastCall,                   \* who called doGetCharacterData.current in the last step
  lastStart,                  \* who started getCharacterData in the last step
  lastUpdate,                 \* the calls updateCharacterData made in the last step
  lastCleared,                \* the sticky flags the last step set from true to false
  gesture                     \* the drag handler the last step ran

vars == <<mounted, isAuthed, hasAuthError, hasSelectedMembership, manifestData,
          hasManifestError, isBungieSystemDisabled, isBungieServiceUnavailable,
          isFetchingCharacterData, characterData, manifestState,
          draggingCharacterId, characterDisplayOrder, storedOrder, authThrottle,
          authInFlight, charThrottle, charInFlight, manifestCalls,
          manifestCleanup, manifestInvocations, manifestInFlight, ga, status,
          useCharacterOrder, validated, lastCall, lastStart, lastUpdate,
          lastCleared, gesture>>

\* The current state as one record, so that a handler is a pipeline of
\* updates on it.
Cur ==
  [mounted |-> mounted, isAuthed |-> isAuthed, hasAuthError |-> hasAuthError,
   hasSelectedMembership |-> hasSelectedMembership,
   manifestData |-> manifestData, hasManifestError |-> hasManifestError,
   isBungieSystemDisabled |-> isBungieSystemDisabled,
   isBungieServiceUnavailable |-> isBungieServiceUnavailable,
   isFetchingCharacterData |-> isFetchingCharacterData,
   characterData |-> characterData, manifestState |-> manifestState,
   draggingCharacterId |-> draggingCharacterId,
   characterDisplayOrder |-> characterDisplayOrder,
   storedOrder |-> storedOrder, authThrottle |-> authThrottle,
   authInFlight |-> authInFlight, charThrottle |-> charThrottle,
   charInFlight |-> charInFlight, manifestCalls |-> manifestCalls,
   manifestCleanup |-> manifestCleanup,
   manifestInvocations |-> manifestInvocations,
   manifestInFlight |-> manifestInFlight, ga |-> ga, status |-> status,
   useCharacterOrder |-> useCharacterOrder, validated |-> validated,
   lastCall |-> "none", lastStart |-> "none", lastUpdate |-> <<>>,
   gesture |-> None]

\* The error flags of the controller.
StickyFlags == {"hasAuthError", "hasManifestError", "isBungieSystemDisabled",
                "isBungieServiceUnavailable"}

\* The next state is the record r; the counters stay within the bounds.
Becomes(r) ==
  /\ r.charInFlight <= MaxInFlight
  /\ r.authInFlight <= MaxInFlight
  /\ r.manifestInFlight <= MaxInFlight
  /\ r.manifestCalls <= MaxManifestCalls
  /\ mounted' = r.mounted
  /\ isAuthed' = r.isAuthed
  /\ hasAuthError' = r.hasAuthError
  /\ hasSelectedMembership' = r.hasSelectedMembership
  /\ manifestData' = r.manifestData
  /\ hasManifestError' = r.hasManifestError
  /\ isBungieSystemDisabled' = r.isBungieSystemDisabled
  /\ isBungieServiceUnavailable' = r.isBungieServiceUnavailable
  /\ isFetchingCharacterData' = r.isFetchingCharacterData
  /\ characterData' = r.characterData
  /\ manifestState' = r.manifestState
  /\ draggingCharacterId' = r.draggingCharacterId
  /\ characterDisplayOrder' = r.characterDisplayOrder
  /\ storedOrder' = r.storedOrder
  /\ authThrottle' = r.authThrottle
  /\ authInFlight' = r.authInFlight
  /\ charThrottle' = r.charThrottle
  /\ charInFlight' = r.charInFlight
  /\ manifestCalls' = r.manifestCalls
  /\ manifestCleanup' = r.manifestCleanup
  /\ manifestInvocations' = r.manifestInvocations
  /\ manifestInFlight' = r.manifestInFlight
  /\ ga' = r.ga
  /\ status' = r.status
  /\ useCharacterOrder' = r.useCharacterOrder
  /\ validated' = r.validated
  /\ lastCall' = r.lastCall
  /\ lastStart' = r.lastStart
  /\ lastUpdate' = r.lastUpdate
  /\ lastCleared' = {f \in StickyFlags : Cur[f] /\ ~r[f]}
  /\ gesture' = r.gesture

(***************************************************************************)
(* Collaborators outside App.tsx, as the specification describes them.     *)
(***************************************************************************)
\* loadCharacterDisplayOrder(): the persisted sequence, or undefined.
loadCharacterDisplayOrder == storedOrder

\* saveCharacterDisplayOrder(order): durable storage now holds order.
saveCharacterDisplayOrder(r, order) == [r EXCEPT !.storedOrder = Some(order)]

\* getCharacterData calls the setIsFetchingCharacterData it was given with
\* false when its fetch has ended.
fetchingEnded(r) == [r EXCEPT !.isFetchingCharacterData = FALSE]

(***************************************************************************)
(* The pure functions of the render.                                       *)
(***************************************************************************)
ManifestStages ==
  {"Unknown", "Checking manifest version", "Loading manifest data",
   "Fetching manifest data from Bungie", "Processing manifest data",
   "Saving manifest data", "Manifest ready"}

\* getDefaultCharacterDisplayOrder: the ids in snapshot order, [] without data.
getDefaultCharacterDisplayOrder(cd) ==
  IF IsSome(cd) THEN [i \in DOMAIN Val(cd) |-> Val(cd)[i].characterId] ELSE <<>>

\* Mutant: the validation without the check that every snapshot's id is in
\* characterIds.
isValidCharacterDisplayOrder_OneWay(cd, characterIds) ==
  /\ IsSome(cd)
  /\ Len(Val(cd)) = Len(characterIds)
  /\ \A i \in DOMAIN characterIds :
       \E j \in DOMAIN Val(cd) : Val(cd)[j].characterId = characterIds[i]

\* isValidCharacterDisplayOrder: characterData is defined, has as many
\* snapshots as characterIds has ids, every id is the id of some snapshot and
\* every snapshot's id is included in characterIds.
isValidCharacterDisplayOrder(cd, characterIds) ==
  /\ IsSome(cd)
  /\ Len(Val(cd)) = Len(characterIds)
  /\ \A i \in DOMAIN characterIds :
       \E j \in DOMAIN Val(cd) : Val(cd)[j].characterId = characterIds[i]
  /\ \A j \in DOMAIN Val(cd) :
       \E i \in DOMAIN characterIds : characterIds[i] = Val(cd)[j].characterId

\* hasManifestData
hasManifestData(r) == r.manifestState = "Manifest ready"

\* Mutant: the chain with the manifest error tested before the auth error.
StatusOf_ManifestErrorFirst(r) ==
  IF r.isBungieSystemDisabled THEN "Bungie API disabled."
  ELSE IF r.isBungieServiceUnavailable THEN "Bungie API unavailable."
  ELSE IF r.hasManifestError THEN "Error fetching manifest"
  ELSE IF r.hasAuthError THEN "Bungie.net authentication required"
  ELSE IF ~r.isAuthed THEN "Authenticating..."
  ELSE IF ~r.hasSelectedMembership
    THEN "Waiting for Destiny platform selection..."
  ELSE IF r.manifestState # "Manifest ready" THEN r.manifestState
  ELSE IF ~IsSome(r.characterData) \/ Len(Val(r.characterData)) = 0
    THEN (IF r.isFetchingCharacterData
            THEN "Fetching character data..."
            ELSE "No character data")
  ELSE ""

\* The if / else-if chain that derives the displayed status.
StatusOf(r) ==
  IF r.isBungieSystemDisabled THEN "Bungie API disabled."
  ELSE IF r.isBungieServiceUnavailable THEN "Bungie API unavailable."
  ELSE IF r.hasAuthError THEN "Bungie.net authentication required"
  ELSE IF r.hasManifestError THEN "Error fetching manifest"
  ELSE IF ~r.isAuthed THEN "Authenticating..."
  ELSE IF ~r.hasSelectedMembership
    THEN "Waiting for Destiny platform selection..."
  ELSE IF ~hasManifestData(r) THEN r.manifestState
  ELSE IF ~IsSome(r.characterData) \/ Len(Val(r.characterData)) = 0
    THEN (IF r.isFetchingCharacterData
            THEN "Fetching character data..."
            ELSE "No character data")
  ELSE ""

\* Mutant: the second position looked up in the copy the first splice changed.
swappedOrder_LookupAfterSplice(currentCharacterOrder, dragging, dropCharacterId) ==
  LET once == Splice(currentCharacterOrder,
                     IndexOf(currentCharacterOrder, dragging), dropCharacterId)
  IN  Splice(once, IndexOf(once, dropCharacterId), dragging)

\* The swap of dropOnCharacterId: two splices on a copy of the current order,
\* both positions looked up in the order as it was before the first splice.
swappedOrder(currentCharacterOrder, dragging, dropCharacterId) ==
  Splice(Splice(currentCharacterOrder,
                IndexOf(currentCharacterOrder, dragging), dropCharacterId),
         IndexOf(currentCharacterOrder, dropCharacterId), dragging)

\* currentCharacterOrder of dropOnCharacterId: the custom order when there is
\* a non-empty one, the default order otherwise.
currentCharacterOrder(r) ==
  IF IsSome(r.characterDisplayOrder) /\ Len(Val(r.characterDisplayOrder)) > 0
    THEN Val(r.characterDisplayOrder)
    ELSE getDefaultCharacterDisplayOrder(r.characterData)

\* Mutant: the render without setCharacterDisplayOrder(undefined).
Render_NoReset(r) ==
  LET order == r.characterDisplayOrder
      checked == /\ IsSome(r.characterData)
                 /\ Len(Val(r.characterData)) > 0
                 /\ IsSome(order)
                 /\ Len(Val(order)) > 0
      valid == isValidCharacterDisplayOrder(r.characterData, Val(order))
  IN  [r EXCEPT
         !.useCharacterOrder =
            IF checked /\ valid
              THEN Val(order)
              ELSE getDefaultCharacterDisplayOrder(r.characterData),
         !.validated =
            IF checked
              THEN Some([order |-> Val(order),
                         ids |-> getDefaultCharacterDisplayOrder(r.characterData),
                         result |-> valid])
              ELSE None,
         !.status = StatusOf(r)]

\* Mutant: the render using a non-empty custom order without validating it.
Render_NoValidation(r) ==
  LET order == r.characterDisplayOrder
      checked == /\ IsSome(r.characterData)
                 /\ Len(Val(r.characterData)) > 0
                 /\ IsSome(order)
                 /\ Len(Val(order)) > 0
  IN  [r EXCEPT
         !.useCharacterOrder =
            IF checked
              THEN Val(order)
              ELSE getDefaultCharacterDisplayOrder(r.characterData),
         !.validated = None,
         !.status = StatusOf(r)]

\* The render's choice of useCharacterOrder.  An invalid custom order is reset
\* by setCharacterDisplayOrder(undefined) during the render, which renders
\* again with the default order; persistent storage is not written.
Render(r) ==
  LET order == r.characterDisplayOrder
      checked == /\ IsSome(r.characterData)
                 /\ Len(Val(r.characterData)) > 0
                 /\ IsSome(order)
                 /\ Len(Val(order)) > 0
      valid == isValidCharacterDisplayOrder(r.characterData, Val(order))
  IN  [r EXCEPT
         !.useCharacterOrder =
            IF checked /\ valid
              THEN Val(order)
              ELSE getDefaultCharacterDisplayOrder(r.characterData),
         !.characterDisplayOrder = IF checked /\ ~valid THEN None ELSE order,
         !.validated =
            IF checked
              THEN Some([order |-> Val(order),
                         ids |-> getDefaultCharacterDisplayOrder(r.characterData),
                         result |-> valid])
              ELSE None,
         !.status = StatusOf(r)]

\* The character cards are rendered only in the first return of App.
CardsRendered(r) ==
  /\ r.mounted = "mounted"
  /\ r.isAuthed
  /\ IsSome(r.characterData)
  /\ Len(Val(r.characterData)) > 0

(***************************************************************************)
(* lodash throttle(func, wait): leading and trailing edge.  A throttle is  *)
(* idle, or in a window (its timer runs; the last call made meanwhile is   *)
(* pending), or cooling down (a trailing invocation just ran: the next     *)
(* call inside wait is deferred to a new timer).                           *)
(***************************************************************************)
IdleThrottle == [timer |-> "idle", pending |-> None]

\* Mutant: the throttled function without setIsFetchingCharacterData(true).
doGetCharacterDataBody_NoFlag(r, args) ==
  IF ~args.isFetchingCharacterData
    THEN [r EXCEPT !.charInFlight = @ + 1, !.lastStart = args.origin]
    ELSE r

\* The function doGetCharacterData throttles: a fetch starts unless the
\* isFetchingCharacterData it was called with is true.
doGetCharacterDataBody(r, args) ==
  IF ~args.isFetchingCharacterData
    THEN [r EXCEPT
            !.isFetchingCharacterData =
               IF r.mounted = "mounted" THEN TRUE ELSE @,
            !.charInFlight = @ + 1,
            !.lastStart = args.origin]
    ELSE r

\* Mutant: a throttle of the leading edge only, which drops the calls made
\* inside its window.
doGetCharacterData_LeadingOnly(r, origin) ==
  LET args == [isFetchingCharacterData |-> r.isFetchingCharacterData,
               origin |-> origin]
  IN  IF r.charThrottle.timer = "idle"
        THEN doGetCharacterDataBody(
               [r EXCEPT !.charThrottle = [timer |-> "window", pending |-> None],
                         !.lastCall = origin],
               args)
        ELSE [r EXCEPT !.lastCall = origin]

\* doGetCharacterData.current(isFetchingCharacterData, ...)
doGetCharacterData(r, origin) ==
  LET args == [isFetchingCharacterData |-> r.isFetchingCharacterData,
               origin |-> origin]
  IN  IF r.charThrottle.timer = "idle"
        THEN doGetCharacterDataBody(
               [r EXCEPT !.charThrottle = [timer |-> "window", pending |-> None],
                         !.lastCall = origin],
               args)
        ELSE [r EXCEPT
                !.charThrottle = [timer |-> "window", pending |-> Some(args)],
                !.lastCall = origin]

\* The function doAuth throttles: auth() is called.
doAuthBody(r) == [r EXCEPT !.authInFlight = @ + 1]

\* doAuth.current(setIsAuthed, setAuthError)
doAuth(r) ==
  IF r.authThrottle.timer = "idle"
    THEN doAuthBody(
           [r EXCEPT !.authThrottle = [timer |-> "window", pending |-> None]])
    ELSE [r EXCEPT
            !.authThrottle = [timer |-> "window", pending |-> Some(TRUE)]]

\* doGetManifest.current(...): returns a new throttled function and does not
\* call it.
doGetManifest(r) == [r EXCEPT !.manifestCalls = @ + 1]

\* The function a throttle made by doGetManifest wraps: getManifest() is called.
doGetManifestBody(r) ==
  [r EXCEPT !.manifestInvocations = @ + 1, !.manifestInFlight = @ + 1]

(***************************************************************************)
(* The effects, and a commit: render, then the effects whose dependencies  *)
(* changed since the state `pre` of the last commit.                       *)
(***************************************************************************)
\* useEffect(..., [isAuthed, setIsAuthed, setAuthError])
AuthEffect(first, pre, r) ==
  IF (first \/ pre.isAuthed # r.isAuthed) /\ ~r.isAuthed THEN doAuth(r) ELSE r

\* Mutant: the no-data effect without !isBungieSystemDisabled in its guard.
NoDataEffect_NoDisabledGuard(first, pre, r) ==
  IF /\ \/ first
        \/ pre.characterData # r.characterData
        \/ pre.isFetchingCharacterData # r.isFetchingCharacterData
        \/ pre.isBungieSystemDisabled # r.isBungieSystemDisabled
     /\ ~IsSome(r.characterData)
     /\ ~r.isFetchingCharacterData
    THEN doGetCharacterData(r, "effect")
    ELSE r

\* useEffect(..., [characterData, isFetchingCharacterData, isBungieSystemDisabled])
NoDataEffect(first, pre, r) ==
  IF /\ \/ first
        \/ pre.characterData # r.characterData
        \/ pre.isFetchingCharacterData # r.isFetchingCharacterData
        \/ pre.isBungieSystemDisabled # r.isBungieSystemDisabled
     /\ ~IsSome(r.characterData)
     /\ ~r.isFetchingCharacterData
     /\ ~r.isBungieSystemDisabled
    THEN doGetCharacterData(r, "effect")
    ELSE r

\* An effect that starts a fetch sets isFetchingCharacterData, which renders
\* once more: of what a render derives only the status reads that flag, and no
\* effect acts on the new state (the no-data effect's guard is false, isAuthed
\* is as it was).
Commit(pre, r) ==
  IF r.mounted # "mounted"
    THEN r
    ELSE LET e == NoDataEffect(FALSE, pre, AuthEffect(FALSE, pre, Render(r)))
         IN  [e EXCEPT !.status = StatusOf(e)]

(***************************************************************************)
(* Initial state: the useState initialisers of App, before it is mounted.  *)
(***************************************************************************)
Init ==
  /\ mounted = "init"
  /\ isAuthed \in BOOLEAN                  \* hasValidAuth()
  /\ hasAuthError = FALSE
  /\ hasSelectedMembership \in BOOLEAN     \* hasSelectedDestinyMembership()
  /\ manifestData = None
  /\ hasManifestError = FALSE
  /\ isBungieSystemDisabled = FALSE
  /\ isBungieServiceUnavailable = FALSE
  /\ isFetchingCharacterData = FALSE
  /\ characterData = None
  /\ manifestState = "Unknown"
  /\ draggingCharacterId = Undefined
  /\ storedOrder \in InitialStoredOrders
  /\ characterDisplayOrder = loadCharacterDisplayOrder
  /\ authThrottle = IdleThrottle
  /\ authInFlight = 0
  /\ charThrottle = IdleThrottle
  /\ charInFlight = 0
  /\ manifestCalls = 0
  /\ manifestCleanup = FALSE
  /\ manifestInvocations = 0
  /\ manifestInFlight = 0
  /\ ga = None
  /\ status = ""
  /\ useCharacterOrder = <<>>
  /\ validated = None
  /\ lastCall = "none"
  /\ lastStart = "none"
  /\ lastUpdate = <<>>
  /\ lastCleared = {}
  /\ gesture = None

(***************************************************************************)
(* Mounting and teardown.                                                  *)
(***************************************************************************)
\* The first render and its effects, in the order App declares them: the
\* auth effect, the manifest effect (whose value, the throttled function that
\* doGetManifest.current returns, React keeps as the effect's cleanup), the
\* interval, the no-data effect.
Mount ==
  /\ mounted = "init"
  /\ LET r0 == Render([Cur EXCEPT !.mounted = "mounted"])
         r1 == AuthEffect(TRUE, r0, r0)
         r2 == [doGetManifest(r1) EXCEPT !.manifestCleanup = TRUE]
         r3 == NoDataEffect(TRUE, r2, r2)
     IN  Becomes([r3 EXCEPT !.status = StatusOf(r3)])

\* Teardown: useInterval clears its interval, and the manifest effect's
\* cleanup runs, which is the first call of a fresh throttled function, so it
\* invokes its body at once.  The module-level throttles are not cancelled.
Unmount ==
  /\ mounted = "mounted"
  /\ LET r0 == [Cur EXCEPT !.mounted = "unmounted", !.manifestCleanup = FALSE]
     IN  Becomes(IF manifestCleanup THEN doGetManifestBody(r0) ELSE r0)

(***************************************************************************)
(* Authentication.                                                         *)
(***************************************************************************)
AuthOutcomes == {"true", "false", "throw"}

\* The continuation of `await auth()` in doAuth.
AuthSettles(outcome) ==
  /\ authInFlight > 0
  /\ LET r0 == [Cur EXCEPT !.authInFlight = @ - 1]
         r1 == IF outcome = "true"
                 THEN [r0 EXCEPT !.isAuthed = TRUE, !.hasAuthError = FALSE]
                 ELSE [r0 EXCEPT !.isAuthed = FALSE, !.hasAuthError = TRUE]
     IN  Becomes(IF mounted = "mounted" THEN Commit(Cur, r1) ELSE r0)

\* Mutant: a throttle of the leading edge only ({trailing: false}).
AuthTimerExpired_NoTrailing ==
  /\ authThrottle.timer = "window"
  /\ Becomes([Cur EXCEPT !.authThrottle = IdleThrottle])

\* The 100ms timer of the doAuth throttle expires: the trailing edge.
AuthTimerExpired ==
  /\ authThrottle.timer = "window"
  /\ Becomes(IF IsSome(authThrottle.pending)
               THEN doAuthBody([Cur EXCEPT !.authThrottle =
                                  [timer |-> "cooldown", pending |-> None]])
               ELSE [Cur EXCEPT !.authThrottle = IdleThrottle])

\* 100ms have passed since the trailing invocation.
AuthCooldownElapsed ==
  /\ authThrottle.timer = "cooldown"
  /\ Becomes([Cur EXCEPT !.authThrottle = IdleThrottle])

\* useEvent(EVENTS.LOG_OUT, ...)
LogOut ==
  /\ mounted = "mounted"
  /\ Becomes(Commit(Cur, [Cur EXCEPT !.isAuthed = FALSE]))

\* onSelectMembership
onSelectMembership ==
  /\ mounted = "mounted"
  /\ Becomes(Commit(Cur, [Cur EXCEPT !.hasSelectedMembership = TRUE]))

(***************************************************************************)
(* The manifest.                                                           *)
(***************************************************************************)
ProgressStages ==
  {"Loading manifest data", "Fetching manifest data from Bungie",
   "Processing manifest data", "Saving manifest data"}

\* Mutant: the GET_MANIFEST handler without setManifestError(false).
GetManifestEvent_KeepsError ==
  /\ mounted = "mounted"
  /\ Becomes(Commit(Cur, [Cur EXCEPT
                            !.manifestState = "Checking manifest version"]))

\* useEvent(EVENTS.GET_MANIFEST, ...)
GetManifestEvent ==
  /\ mounted = "mounted"
  /\ Becomes(Commit(Cur, [Cur EXCEPT !.hasManifestError = FALSE,
                                     !.manifestState = "Checking manifest version"]))

\* useEvent of LOAD_ / FETCH_ / PARSE_ / STORE_MANIFEST_DATA
ManifestProgressEvent(stage) ==
  /\ mounted = "mounted"
  /\ Becomes(Commit(Cur, [Cur EXCEPT !.manifestState = stage]))

\* useEvent(EVENTS.MANIFEST_DATA_READY, ...)
ManifestDataReadyEvent ==
  /\ mounted = "mounted"
  /\ Becomes(Commit(Cur, [Cur EXCEPT !.hasManifestError = FALSE,
                                     !.manifestState = "Manifest ready"]))

\* useEvent(EVENTS.MANIFEST_FETCH_ERROR, ...): the throttled function that
\* doGetManifest.current returns is dropped.
ManifestFetchErrorEvent ==
  /\ mounted = "mounted"
  /\ Becomes(Commit(Cur, doGetManifest(Cur)))

ManifestOutcomes == {"manifest", "SystemDisabled", "503", "Other", "throw"}

\* The continuation of `await getManifest()` in a throttled function made by
\* doGetManifest.
ManifestSettles(outcome) ==
  /\ manifestInFlight > 0
  /\ LET r0 == [Cur EXCEPT !.manifestInFlight = @ - 1]
         r1 == IF outcome = "manifest"
                 THEN [r0 EXCEPT !.manifestData = Some("manifest")]
                 ELSE [r0 EXCEPT
                         !.hasManifestError = TRUE,
                         !.isBungieSystemDisabled =
                            IF outcome = "SystemDisabled" THEN TRUE ELSE @,
                         !.isBungieServiceUnavailable =
                            IF outcome = "503" THEN TRUE ELSE @]
     IN  Becomes(IF mounted = "mounted" THEN Commit(Cur, r1) ELSE r0)

(***************************************************************************)
(* Character data.                                                         *)
(***************************************************************************)
\* Math.max() of no arguments is -Infinity; powers are never negative.
NegInfinity == -1

MaxOf(S) == IF S = {} THEN NegInfinity ELSE CHOOSE m \in S : \A x \in S : x <= m

\* `${n}`: the decimal digits of n, "-Infinity" for -Infinity.
Format(n) == IF n = NegInfinity THEN "-Infinity" ELSE ToString(n)

\* Mutant: the total taken as the best overall + artifact of one character.
Metrics_OneCharacter(newData) ==
  LET newOverallPower == MaxOf({newData[i].overallPower : i \in DOMAIN newData})
      newArtifactPower ==
        MaxOf({IF IsSome(newData[i].artifactData)
                 THEN Val(newData[i].artifactData) ELSE 0 : i \in DOMAIN newData})
      newTotalPower ==
        MaxOf({newData[i].overallPower
                 + (IF IsSome(newData[i].artifactData)
                      THEN Val(newData[i].artifactData) ELSE 0) :
               i \in DOMAIN newData})
  IN  [dimension1 |-> Format(newOverallPower),
       dimension2 |-> Format(newArtifactPower),
       dimension3 |-> Format(newTotalPower)]

\* updateCharacterData: the three dimensions given to ga.set.
Metrics(newData) ==
  LET newOverallPower == MaxOf({newData[i].overallPower : i \in DOMAIN newData})
      newArtifactPower ==
        MaxOf({IF IsSome(newData[i].artifactData)
                 THEN Val(newData[i].artifactData) ELSE 0 : i \in DOMAIN newData})
      newTotalPower == IF newOverallPower = NegInfinity
                         THEN NegInfinity
                         ELSE newOverallPower + newArtifactPower
  IN  [dimension1 |-> Format(newOverallPower),
       dimension2 |-> Format(newArtifactPower),
       dimension3 |-> Format(newTotalPower)]

\* The callback of useInterval(..., CHARACTER_DATA_REFRESH_TIMER).
IntervalTick ==
  /\ mounted = "mounted"
  /\ isAuthed /\ hasSelectedMembership /\ ~isFetchingCharacterData
  /\ Becomes(Commit(Cur, doGetCharacterData(Cur, "interval")))

\* The 500ms timer of the doGetCharacterData throttle expires: the trailing
\* edge invokes the function with the arguments of the last deferred call.
CharTimerExpired ==
  /\ charThrottle.timer = "window"
  /\ Becomes(IF IsSome(charThrottle.pending)
               THEN Commit(Cur, doGetCharacterDataBody(
                                  [Cur EXCEPT !.charThrottle =
                                     [timer |-> "cooldown", pending |-> None]],
                                  Val(charThrottle.pending)))
               ELSE [Cur EXCEPT !.charThrottle = IdleThrottle])

\* 500ms have passed since the trailing invocation.
CharCooldownElapsed ==
  /\ charThrottle.timer = "cooldown"
  /\ Becomes([Cur EXCEPT !.charThrottle = IdleThrottle])

\* getCharacterData delivers a snapshot set (updateCharacterData), reports
\* that it no longer fetches and resolves.
FetchSucceeds(newData) ==
  /\ charInFlight > 0
  /\ LET r0 == [Cur EXCEPT
                  !.charInFlight = @ - 1,
                  !.ga = Some(Metrics(newData)),
                  !.lastUpdate = <<[call |-> "ga.set", arg |-> Metrics(newData)],
                                   [call |-> "setCharacterData", arg |-> newData]>>]
         r1 == fetchingEnded([r0 EXCEPT !.characterData = Some(newData)])
     IN  Becomes(IF mounted = "mounted" THEN Commit(Cur, r1) ELSE r0)

FetchErrors == {"SystemDisabled", "503", "Other"}

\* getCharacterData throws; it may or may not have reported before that it no
\* longer fetches (release).  The catch of doGetCharacterData sets the flags.
FetchFails(error, release) ==
  /\ charInFlight > 0
  /\ LET r0 == [Cur EXCEPT !.charInFlight = @ - 1]
         r1 == [(IF release THEN fetchingEnded(r0) ELSE r0) EXCEPT
                  !.isBungieSystemDisabled =
                     IF error = "SystemDisabled" THEN TRUE ELSE @,
                  !.isBungieServiceUnavailable =
                     IF error = "503" THEN TRUE ELSE @]
     IN  Becomes(IF mounted = "mounted" THEN Commit(Cur, r1) ELSE r0)

(***************************************************************************)
(* Drag and drop of the character cards.                                   *)
(***************************************************************************)
Gesture(op, target, from) ==
  Some([op |-> op, dragging |-> draggingCharacterId, target |-> target,
        from |-> from])

\* onDragStart of a rendered card
onDragStart(characterId) ==
  /\ CardsRendered(Cur)
  /\ characterId \in Range(useCharacterOrder)
  /\ Becomes(Commit(Cur, [Cur EXCEPT
                            !.draggingCharacterId = characterId,
                            !.gesture = Gesture("onDragStart", characterId, <<>>)]))

\* onDragEnd of a rendered card
onDragEnd ==
  /\ CardsRendered(Cur)
  /\ Becomes(Commit(Cur, [Cur EXCEPT
                            !.draggingCharacterId = Undefined,
                            !.gesture = Gesture("onDragEnd", Undefined, <<>>)]))

\* Mutant: dropOnCharacterId without its early return.
dropOnCharacterId_NoEarlyReturn(dropCharacterId) ==
  /\ CardsRendered(Cur)
  /\ dropCharacterId \in Range(useCharacterOrder)
  /\ LET from == currentCharacterOrder(Cur)
         r0 == [Cur EXCEPT
                  !.gesture = Gesture("dropOnCharacterId", dropCharacterId, from)]
         swapped == swappedOrder(from, draggingCharacterId, dropCharacterId)
     IN  Becomes(Commit(Cur, [saveCharacterDisplayOrder(r0, swapped) EXCEPT
                                !.characterDisplayOrder = Some(swapped)]))

\* Mutant: dropOnCharacterId ending the gesture after its swap.
dropOnCharacterId_ClearsDrag(dropCharacterId) ==
  /\ CardsRendered(Cur)
  /\ dropCharacterId \in Range(useCharacterOrder)
  /\ LET from == currentCharacterOrder(Cur)
         r0 == [Cur EXCEPT
                  !.gesture = Gesture("dropOnCharacterId", dropCharacterId, from)]
         swapped == swappedOrder(from, draggingCharacterId, dropCharacterId)
     IN  Becomes(IF \/ draggingCharacterId = Undefined
                    \/ draggingCharacterId = dropCharacterId
                   THEN r0
                   ELSE Commit(Cur, [saveCharacterDisplayOrder(r0, swapped) EXCEPT
                                       !.characterDisplayOrder = Some(swapped),
                                       !.draggingCharacterId = Undefined]))

\* Mutant: dropOnCharacterId without saveCharacterDisplayOrder(swappedOrder).
dropOnCharacterId_NoSave(dropCharacterId) ==
  /\ CardsRendered(Cur)
  /\ dropCharacterId \in Range(useCharacterOrder)
  /\ LET from == currentCharacterOrder(Cur)
         r0 == [Cur EXCEPT
                  !.gesture = Gesture("dropOnCharacterId", dropCharacterId, from)]
         swapped == swappedOrder(from, draggingCharacterId, dropCharacterId)
     IN  Becomes(IF \/ draggingCharacterId = Undefined
                    \/ draggingCharacterId = dropCharacterId
                   THEN r0
                   ELSE Commit(Cur, [r0 EXCEPT
                                       !.characterDisplayOrder = Some(swapped)]))

\* onDragDrop of a rendered card: dropOnCharacterId(dropCharacterId)
dropOnCharacterId(dropCharacterId) ==
  /\ CardsRendered(Cur)
  /\ dropCharacterId \in Range(useCharacterOrder)
  /\ LET from == currentCharacterOrder(Cur)
         r0 == [Cur EXCEPT
                  !.gesture = Gesture("dropOnCharacterId", dropCharacterId, from)]
         swapped == swappedOrder(from, draggingCharacterId, dropCharacterId)
     IN  Becomes(IF \/ draggingCharacterId = Undefined
                    \/ draggingCharacterId = dropCharacterId
                   THEN r0
                   ELSE Commit(Cur, [saveCharacterDisplayOrder(r0, swapped) EXCEPT
                                       !.characterDisplayOrder = Some(swapped)]))

(***************************************************************************)
(* The specification.                                                      *)
(***************************************************************************)
Next ==
  \/ Mount
  \/ Unmount
  \/ \E outcome \in AuthOutcomes : AuthSettles(outcome)
  \/ AuthTimerExpired
  \/ AuthCooldownElapsed
  \/ LogOut
  \/ onSelectMembership
  \/ GetManifestEvent
  \/ \E stage \in ProgressStages : ManifestProgressEvent(stage)
  \/ ManifestDataReadyEvent
  \/ ManifestFetchErrorEvent
  \/ \E outcome \in ManifestOutcomes : ManifestSettles(outcome)
  \/ IntervalTick
  \/ CharTimerExpired
  \/ CharCooldownElapsed
  \/ \E newData \in Deliveries : FetchSucceeds(newData)
  \/ \E error \in FetchErrors, release \in BOOLEAN : FetchFails(error, release)
  \/ \E characterId \in Ids : onDragStart(characterId)
  \/ onDragEnd
  \/ \E dropCharacterId \in Ids : dropOnCharacterId(dropCharacterId)

Spec == Init /\ [][Next]_vars

(***************************************************************************)
(* The controller's parts, each with the whole of the code it runs and     *)
(* with the events of the other parts left out, so that each is checked    *)
(* with bounds that make its cases happen.                                 *)
(***************************************************************************)
\* The display order: snapshot deliveries interleaved with drag gestures.
NextOrder ==
  \/ Mount
  \/ IntervalTick
  \/ CharTimerExpired
  \/ CharCooldownElapsed
  \/ \E newData \in Deliveries : FetchSucceeds(newData)
  \/ \E characterId \in Ids : onDragStart(characterId)
  \/ onDragEnd
  \/ \E dropCharacterId \in Ids : dropOnCharacterId(dropCharacterId)

SpecOrder == Init /\ [][NextOrder]_vars

\* The refresh of character data: authentication, polling, the throttle, the
\* outcomes of a fetch and teardown.
FetchDeliveries == {SnapshotSet(<<>>), SnapshotSet(<<"A", "B">>)}

InitFetch == Init /\ storedOrder = None

NextFetch ==
  \/ Mount
  \/ Unmount
  \/ \E outcome \in AuthOutcomes : AuthSettles(outcome)
  \/ AuthTimerExpired
  \/ AuthCooldownElapsed
  \/ LogOut
  \/ onSelectMembership
  \/ IntervalTick
  \/ CharTimerExpired
  \/ CharCooldownElapsed
  \/ \E newData \in FetchDeliveries : FetchSucceeds(newData)
  \/ \E error \in FetchErrors, release \in BOOLEAN : FetchFails(error, release)

SpecFetch == InitFetch /\ [][NextFetch]_vars

\* The polling alone, authenticated or not, with the timers of the throttle
\* running: a timer that was set expires.
NextPoll ==
  \/ Mount
  \/ Unmount
  \/ IntervalTick
  \/ CharTimerExpired
  \/ CharCooldownElapsed
  \/ \E newData \in FetchDeliveries : FetchSucceeds(newData)
  \/ \E error \in FetchErrors, release \in BOOLEAN : FetchFails(error, release)

SpecPollFair ==
  /\ InitFetch
  /\ [][NextPoll]_vars
  /\ WF_vars(CharTimerExpired)
  /\ WF_vars(CharCooldownElapsed)

\* The manifest: its events, its fetch and teardown.
InitManifest == Init /\ storedOrder = None /\ isAuthed /\ hasSelectedMembership

NextManifest ==
  \/ Mount
  \/ Unmount
  \/ GetManifestEvent
  \/ \E stage \in ProgressStages : ManifestProgressEvent(stage)
  \/ ManifestDataReadyEvent
  \/ ManifestFetchErrorEvent
  \/ \E outcome \in ManifestOutcomes : ManifestSettles(outcome)
  \/ CharTimerExpired
  \/ \E newData \in FetchDeliveries : FetchSucceeds(newData)
  \/ \E error \in FetchErrors, release \in BOOLEAN : FetchFails(error, release)

SpecManifest == InitManifest /\ [][NextManifest]_vars

\* The analytics of a delivery: snapshot sets of up to two characters with
\* different overall powers, with and without artifact data.
MetricPowers == {700, 720}

MetricArtifacts == {None, Some(40), Some(50)}

MetricSnapshots(id) ==
  {PowerSnapshot(id, p, a) : p \in MetricPowers, a \in MetricArtifacts}

MetricDeliveries ==
  {<<>>}
    \cup {<<c>> : c \in MetricSnapshots("A")}
    \cup {<<c, d>> : c \in MetricSnapshots("A"), d \in MetricSnapshots("B")}
    \cup {<<d, c>> : c \in MetricSnapshots("A"), d \in MetricSnapshots("B")}

InitMetrics == Init /\ storedOrder = None /\ isAuthed /\ hasSelectedMembership

NextMetrics ==
  \/ Mount
  \/ Unmount
  \/ IntervalTick
  \/ CharTimerExpired
  \/ CharCooldownElapsed
  \/ \E newData \in MetricDeliveries : FetchSucceeds(newData)

SpecMetrics == InitMetrics /\ [][NextMetrics]_vars

(***************************************************************************)
(* Properties of the display order.                                        *)
(***************************************************************************)
Count(s, x) == Cardinality({i \in DOMAIN s : s[i] = x})

SameMultiset(s, u) == \A x \in Range(s) \cup Range(u) : Count(s, x) = Count(u, x)

\* The last step ran dropOnCharacterId past its early return.
DropChanged ==
  /\ IsSome(gesture)
  /\ Val(gesture).op = "dropOnCharacterId"
  /\ Val(gesture).dragging # Undefined
  /\ Val(gesture).dragging # Val(gesture).target

\* C1: whenever dropOnCharacterId makes a change, the order it stores is a
\* permutation of the order it started from: the same ids, each as often.
C1_DropPreservesIds ==
  DropChanged =>
    /\ IsSome(storedOrder)
    /\ SameMultiset(Val(storedOrder), Val(gesture).from)

\* The order with the ids d and e exchanged, position by position.
PairSwap(s, d, e) ==
  [i \in DOMAIN s |-> IF s[i] = d THEN e ELSE IF s[i] = e THEN d ELSE s[i]]

\* The ids of the current snapshot set, in snapshot order (DefaultOrder).
SnapshotIds ==
  IF IsSome(characterData)
    THEN [i \in DOMAIN Val(characterData) |-> Val(characterData)[i].characterId]
    ELSE <<>>

\* The order a drop starts from: the custom order, DefaultOrder when none is set.
StartOrder ==
  IF IsSome(characterDisplayOrder) /\ characterDisplayOrder # Some(<<>>)
    THEN Val(characterDisplayOrder)
    ELSE SnapshotIds

\* C8: a drop of the dragged id d on a target t # d, both in the starting
\* order, exchanges the two positions and leaves every other position as it
\* was; the new order is saved to storage and set as the custom order.
C8_DropIsPairSwap ==
  [][\A t \in Ids :
       (/\ dropOnCharacterId(t)
        /\ draggingCharacterId # Undefined
        /\ draggingCharacterId # t
        /\ draggingCharacterId \in Range(StartOrder)
        /\ t \in Range(StartOrder))
       => /\ storedOrder' = Some(PairSwap(StartOrder, draggingCharacterId, t))
          /\ characterDisplayOrder' = storedOrder'
          /\ useCharacterOrder' = Val(storedOrder')]_vars

\* C8 witness: a drop has exchanged two cards of a three-card order, the third
\* in place, and the result is both stored and set.
C8_Witness ==
  /\ DropChanged
  /\ Len(Val(gesture).from) = 3
  /\ Val(gesture).dragging \in Range(Val(gesture).from)
  /\ storedOrder = Some(PairSwap(Val(gesture).from, Val(gesture).dragging,
                                 Val(gesture).target))
  /\ characterDisplayOrder = storedOrder
  /\ Val(storedOrder) # Val(gesture).from

\* The state of the program without the order and the drag state.
rest == <<mounted, isAuthed, hasAuthError, hasSelectedMembership, manifestData,
          hasManifestError, isBungieSystemDisabled, isBungieServiceUnavailable,
          isFetchingCharacterData, characterData, manifestState, authThrottle,
          authInFlight, charThrottle, charInFlight, manifestCalls,
          manifestCleanup, manifestInvocations, manifestInFlight, ga, status,
          useCharacterOrder>>

\* C9: a drop with no drag in progress, or onto the dragged card itself, and
\* onDragEnd with no drag in progress change nothing.
C9_DragNoOps ==
  [][/\ \A t \in Ids :
          (/\ dropOnCharacterId(t)
           /\ (draggingCharacterId = Undefined \/ draggingCharacterId = t))
          => UNCHANGED <<characterDisplayOrder, storedOrder, draggingCharacterId,
                         rest>>
     /\ (onDragEnd /\ draggingCharacterId = Undefined)
          => UNCHANGED <<characterDisplayOrder, storedOrder, draggingCharacterId,
                         rest>>]_vars

\* C9 witness: onDragEnd has run with no drag in progress, a custom order set.
C9_Witness ==
  /\ IsSome(gesture)
  /\ Val(gesture).op = "onDragEnd"
  /\ Val(gesture).dragging = Undefined
  /\ IsSome(characterDisplayOrder)

\* C10, as claimed: once a drop has completed a swap the gesture is over, no
\* id is being dragged.
C10_DropEndsGesture == DropChanged => draggingCharacterId = Undefined

\* C10, amended: onDragStart(id) sets the dragged id, onDragEnd clears it, and
\* a drop, like every other step, leaves it as it is.
C10_GestureStateMachine ==
  [][/\ \A id \in Ids : onDragStart(id) => draggingCharacterId' = id
     /\ onDragEnd => draggingCharacterId' = Undefined
     /\ \A t \in Ids : dropOnCharacterId(t) => UNCHANGED draggingCharacterId
     /\ draggingCharacterId' # draggingCharacterId
          => (onDragEnd \/ \E id \in Ids : onDragStart(id))
     /\ draggingCharacterId' \in Ids \cup {Undefined}]_vars

\* C10 witness: a drop has swapped two cards and its dragged id is still set.
C10_Witness ==
  /\ DropChanged
  /\ draggingCharacterId = Val(gesture).dragging
  /\ Val(storedOrder) # Val(gesture).from

\* The last render found a non-empty custom order invalid for a non-empty
\* snapshot set.
ValidationFailed == IsSome(validated) /\ ~Val(validated).result

\* C4, as claimed: after a failed validation the default order is used and the
\* stale order is gone from memory and from storage.
C4_StaleOrderCleared ==
  ValidationFailed =>
    /\ useCharacterOrder = SnapshotIds
    /\ characterDisplayOrder = None
    /\ storedOrder # Some(Val(validated).order)

\* C4, amended: after a failed validation the default order is used and the
\* custom order in memory is undefined; storage still holds the stale order.
C4_StaleOrderDropped ==
  ValidationFailed =>
    /\ useCharacterOrder = SnapshotIds
    /\ characterDisplayOrder = None
    /\ storedOrder = Some(Val(validated).order)

\* C4 witness: a persisted order of other ids failed against the snapshot set
\* and the default order is displayed.
C4_Witness ==
  /\ ValidationFailed
  /\ Val(validated).order = <<"C", "A">>
  /\ SnapshotIds = <<"A", "B">>
  /\ useCharacterOrder = <<"A", "B">>

(***************************************************************************)
(* The render as a function of the state: App is rendered from any         *)
(* combination of the flags, any snapshot set and any custom order.        *)
(***************************************************************************)
InitRender ==
  /\ mounted = "init"
  /\ manifestData = None
  /\ draggingCharacterId = Undefined
  /\ authThrottle = IdleThrottle
  /\ authInFlight = 0
  /\ charThrottle = IdleThrottle
  /\ charInFlight = 0
  /\ manifestCalls = 0
  /\ manifestCleanup = FALSE
  /\ manifestInvocations = 0
  /\ manifestInFlight = 0
  /\ ga = None
  /\ status = ""
  /\ useCharacterOrder = <<>>
  /\ validated = None
  /\ lastCall = "none"
  /\ lastStart = "none"
  /\ lastUpdate = <<>>
  /\ lastCleared = {}
  /\ gesture = None
  /\ \/ /\ isAuthed \in BOOLEAN
        /\ hasAuthError \in BOOLEAN
        /\ hasSelectedMembership \in BOOLEAN
        /\ hasManifestError \in BOOLEAN
        /\ isBungieSystemDisabled \in BOOLEAN
        /\ isBungieServiceUnavailable \in BOOLEAN
        /\ isFetchingCharacterData \in BOOLEAN
        /\ manifestState \in ManifestStages
        /\ characterData \in {None} \cup {Some(d) : d \in FetchDeliveries}
        /\ characterDisplayOrder = None
     \/ /\ isAuthed = TRUE
        /\ hasAuthError = FALSE
        /\ hasSelectedMembership = TRUE
        /\ hasManifestError = FALSE
        /\ isBungieSystemDisabled = FALSE
        /\ isBungieServiceUnavailable = FALSE
        /\ isFetchingCharacterData = FALSE
        /\ manifestState = "Manifest ready"
        /\ characterData \in {None} \cup {Some(d) : d \in Deliveries}
        /\ characterDisplayOrder \in
             {None} \cup {Some(o) : o \in SeqsUpTo(Ids, MaxChars)}
  /\ storedOrder = characterDisplayOrder

SpecRender == InitRender /\ [][Mount]_vars

\* The id set of the current snapshot set.
SnapshotIdSet == Range(SnapshotIds)

\* C2: for every id sequence O and every snapshot set,
\* isValidCharacterDisplayOrder(O) is true exactly when O is as long as the
\* snapshot set is large and holds exactly the snapshot set's ids; the
\* validation a render ran agrees.
C2_ValidateOrderIsSetEquality ==
  IsSome(characterData) =>
    /\ \A O \in SeqsUpTo(Ids, MaxChars) :
         isValidCharacterDisplayOrder(characterData, O)
           <=> (Len(O) = Cardinality(SnapshotIdSet) /\ Range(O) = SnapshotIdSet)
    /\ IsSome(validated) =>
         (Val(validated).result
            <=> /\ Len(Val(validated).order) = Cardinality(Range(Val(validated).ids))
                /\ Range(Val(validated).order) = Range(Val(validated).ids))

\* C2 witness: a render rejected an order of the right length with a
\* duplicated id (and so a missing one).
C2_Witness ==
  /\ validated = Some([order |-> <<"B", "B">>, ids |-> <<"A", "B">>,
                       result |-> FALSE])
  /\ SnapshotIds = <<"A", "B">>

\* The statuses in the claimed order of precedence: whether each applies, and
\* the text it displays.
Precedence ==
  << <<isBungieSystemDisabled, "Bungie API disabled.">>,
     <<isBungieServiceUnavailable, "Bungie API unavailable.">>,
     <<hasAuthError, "Bungie.net authentication required">>,
     <<hasManifestError, "Error fetching manifest">>,
     <<~isAuthed, "Authenticating...">>,
     <<~hasSelectedMembership, "Waiting for Destiny platform selection...">>,
     <<manifestState # "Manifest ready", manifestState>>,
     <<SnapshotIds = <<>> /\ isFetchingCharacterData, "Fetching character data...">>,
     <<SnapshotIds = <<>> /\ ~isFetchingCharacterData, "No character data">>,
     <<TRUE, "">> >>

C20_MemoryMatchesStorage ==
  IsSome(characterDisplayOrder) => storedOrder = characterDisplayOrder

\* C20 witness: a drop has replaced a loaded order, in memory and in storage.
C20_Witness ==
  /\ DropChanged
  /\ Val(gesture).from = <<"B", "A", "C">>
  /\ IsSome(characterDisplayOrder)
  /\ Val(characterDisplayOrder) # Val(gesture).from
  /\ storedOrder = characterDisplayOrder

\* C11: while the controller is mounted with a non-empty snapshot set, the
\* order the cards are rendered in holds every snapshot id exactly once and no
\* other id.
C11_EffectiveOrderIsPermutation ==
  (mounted = "mounted" /\ SnapshotIds # <<>>) =>
    /\ Len(useCharacterOrder) = Len(SnapshotIds)
    /\ \A id \in SnapshotIdSet : Count(useCharacterOrder, id) = 1
    /\ Range(useCharacterOrder) \subseteq SnapshotIdSet

\* C11 witness: a drop of an id no longer in the order has stored an order that
\* does not match the snapshot set, and the cards are in snapshot order.
C11_Witness ==
  /\ DropChanged
  /\ Val(gesture).dragging \notin Range(Val(gesture).from)
  /\ Len(SnapshotIds) >= 2
  /\ ~SameMultiset(Val(storedOrder), SnapshotIds)
  /\ useCharacterOrder = SnapshotIds

(***************************************************************************)
(* Properties of the refresh.                                              *)
(***************************************************************************)
\* C3: at most one getCharacterData request is in flight, and while one is
\* the mounted controller's isFetchingCharacterData flag is set.
C3_FetchesNeverOverlap ==
  /\ charInFlight <= 1
  /\ (charInFlight = 1 /\ mounted = "mounted") => isFetchingCharacterData

\* C3 witness: a deferred invocation of the throttle, made for the interval
\* with the arguments captured at the call, has started the one fetch in flight.
C3_Witness ==
  /\ charInFlight = 1
  /\ lastStart = "interval"
  /\ charThrottle.timer = "cooldown"
  /\ isFetchingCharacterData

\* C16, as claimed: auth() is invoked only while not authenticated, and the
\* calls of one 100ms window are answered by the leading invocation alone: the
\* end of the window invokes nothing.
C16_LeadingEdgeOnly ==
  [][/\ authInFlight' > authInFlight => ~isAuthed'
     /\ AuthTimerExpired => authInFlight' = authInFlight]_vars

\* C16, amended: auth() is invoked only while not authenticated; a call with
\* the throttle idle invokes it at once, a call inside the window invokes
\* nothing, and the end of the window invokes it once more when a call was
\* made inside the window.
C16_AuthThrottle ==
  [][/\ authInFlight' > authInFlight
          => (~isAuthed' /\ authInFlight' = authInFlight + 1)
     /\ (authThrottle.timer = "idle" /\ authThrottle'.timer = "window")
          => authInFlight' = authInFlight + 1
     /\ (LogOut /\ isAuthed /\ authThrottle.timer # "idle")
          => (authInFlight' = authInFlight /\ IsSome(authThrottle'.pending))
     /\ AuthTimerExpired
          => authInFlight' = authInFlight
                               + (IF IsSome(authThrottle.pending) THEN 1 ELSE 0)]_vars

\* C16 witness: the end of a window has invoked auth() for a call made inside
\* the window, after the leading invocation had settled.
C16_Witness ==
  /\ mounted = "mounted"
  /\ authThrottle.timer = "cooldown"
  /\ authInFlight = 1
  /\ ~isAuthed

\* The mounted controller has received no snapshot set, has no fetch in
\* flight and is not marked disabled.
NoDataIdle ==
  /\ mounted = "mounted"
  /\ characterData = None
  /\ ~isFetchingCharacterData
  /\ ~isBungieSystemDisabled

\* C17: in such a state a fetch is already scheduled for the end of the
\* throttle's running 500ms window (the call the no-data effect made was
\* deferred), and the fetch is started; had the throttle been idle the call
\* would have started it in the same step.  The interval is not waited for.
C17_ImmediateFirstFetch ==
  /\ [](NoDataIdle =>
          /\ charThrottle.timer = "window"
          /\ IsSome(charThrottle.pending)
          /\ ~Val(charThrottle.pending).isFetchingCharacterData)
  /\ (NoDataIdle ~> lastStart # "none")

\* C17 witness: the end of the window has started the fetch the no-data
\* effect asked for after a failed fetch, whether or not the user is
\* authenticated.
C17_Witness ==
  /\ mounted = "mounted"
  /\ lastStart = "effect"
  /\ charThrottle.timer = "cooldown"
  /\ characterData = None
  /\ charInFlight = 1
  /\ ~isAuthed

\* C18: no step that ends with the controller torn down invokes auth(),
\* getManifest() or getCharacterData(): teardown itself invokes nothing, and
\* no timer of a throttle does afterwards.
C18_TeardownCancelsTimers ==
  [][mounted' = "unmounted"
       => /\ manifestInvocations' = manifestInvocations
          /\ authInFlight' <= authInFlight
          /\ charInFlight' <= charInFlight]_vars

\* C6, as claimed: while system-disabled or service-unavailable is set no
\* character-data fetch is started.
C6_OutageSuppressesPolling ==
  (isBungieSystemDisabled \/ isBungieServiceUnavailable) => lastStart = "none"

\* C6, amended: with system-disabled set the no-data effect makes no call of
\* doGetCharacterData.current; a call made then is the interval's.
C6_DisabledSuppressesNoDataFetch ==
  isBungieSystemDisabled => lastCall \in {"none", "interval"}

\* C6 witness: the interval has started a fetch with system-disabled set.
C6_Witness ==
  /\ isBungieSystemDisabled
  /\ lastCall = "interval"
  /\ lastStart = "interval"
  /\ charInFlight = 1

\* C5: once doGetManifest.current(...) has been called, getManifest() has
\* been invoked exactly once (no timer of a manifest throttle runs while the
\* controller is mounted, so the calls may all fall in one 500ms window).
C5_ManifestThrottle ==
  (mounted = "mounted" /\ manifestCalls >= 1) => manifestInvocations = 1

(***************************************************************************)
(* Properties of the manifest.                                             *)
(***************************************************************************)
\* C13: mounting the controller invokes getManifest() once, and a
\* MANIFEST_FETCH_ERROR event invokes it again unless an invocation of the
\* last 500ms absorbs it (none can when there has been no invocation at all).
C13_EnsureManifestTriggers ==
  [][/\ Mount => manifestInvocations' = manifestInvocations + 1
     /\ (ManifestFetchErrorEvent /\ manifestInvocations = 0)
          => manifestInvocations' = 1]_vars

\* C15: when a manifest fetch has succeeded (getManifest() resolved with a
\* manifest, or the service reported MANIFEST_DATA_READY) the manifest error
\* and the two outage flags are clear.
C15_ManifestSuccessRecovers ==
  [][(ManifestDataReadyEvent \/ ManifestSettles("manifest"))
       => /\ ~hasManifestError'
          /\ ~isBungieSystemDisabled'
          /\ ~isBungieServiceUnavailable']_vars

(***************************************************************************)
(* The handlers that write the error flags, run from every combination of  *)
(* the flags a render may hold.                                            *)
(***************************************************************************)
InitFlags ==
  /\ InitRender
  /\ hasSelectedMembership
  /\ ~isFetchingCharacterData
  /\ manifestState = "Unknown"
  /\ characterData = None
  /\ characterDisplayOrder = None

NextFlags ==
  \/ Mount
  \/ Unmount
  \/ \E outcome \in AuthOutcomes : AuthSettles(outcome)
  \/ AuthTimerExpired
  \/ AuthCooldownElapsed
  \/ LogOut
  \/ GetManifestEvent
  \/ ManifestDataReadyEvent
  \/ ManifestFetchErrorEvent
  \/ \E outcome \in ManifestOutcomes : ManifestSettles(outcome)
  \/ IntervalTick
  \/ CharTimerExpired
  \/ CharCooldownElapsed
  \/ \E newData \in FetchDeliveries : FetchSucceeds(newData)
  \/ \E error \in FetchErrors, release \in BOOLEAN : FetchFails(error, release)

SpecFlags == InitFlags /\ [][NextFlags]_vars

IsMaximum(m, S) == m \in S /\ \A x \in S : x <= m

\* The artifact bonus power of a snapshot, 0 without artifact data.
ArtifactPower(c) == IF c.artifactData = None THEN 0 ELSE c.artifactData[1]

\* C12: a delivery of a non-empty snapshot set calls ga.set and then
\* setCharacterData; ga.set is given the greatest overall power, the greatest
\* artifact bonus power (0 for a snapshot without artifact data) and the sum
\* of the two, whichever characters they come from.
C12_AggregateMetrics ==
  (lastUpdate # <<>> /\ lastUpdate[2].arg # <<>>) =>
    LET newData == lastUpdate[2].arg
    IN  /\ lastUpdate[1].call = "ga.set"
        /\ lastUpdate[2].call = "setCharacterData"
        /\ ga = Some(lastUpdate[1].arg)
        /\ mounted = "mounted" => characterData = Some(newData)
        /\ \E o \in MetricPowers, a \in 0..50 :
              /\ IsMaximum(o, {newData[i].overallPower : i \in DOMAIN newData})
              /\ IsMaximum(a, {ArtifactPower(newData[i]) : i \in DOMAIN newData})
              /\ lastUpdate[1].arg = [dimension1 |-> ToString(o),
                                      dimension2 |-> ToString(a),
                                      dimension3 |-> ToString(o + a)]

\* C12 witness: the greatest overall power and the greatest artifact bonus come
\* from different characters, and 720, 50 and 770 are reported.
C12_Witness ==
  /\ lastUpdate # <<>>
  /\ lastUpdate[2].arg = <<PowerSnapshot("A", 700, Some(50)),
                           PowerSnapshot("B", 720, Some(40))>>
  /\ ga = Some([dimension1 |-> "720", dimension2 |-> "50", dimension3 |-> "770"])
  /\ characterData = Some(lastUpdate[2].arg)

====
